---- MODULE Spec2Model ----
(***************************************************************************)
(* A model of pil3k's IptcImagePlugin.py (IPTC/NAA record streams, the     *)
(* pixel staging of load, the getiptcinfo helper) and IcoImagePlugin.py    *)
(* (the icon directory scan).                                              *)
(*                                                                         *)
(* Byte strings are sequences of 0..255.  A Python exception is the name   *)
(* of its class in the variable exc ("OK" when none is pending); an        *)
(* operator that may raise returns a record with an exc field.             *)
(***************************************************************************)
EXTENDS Integers, Sequences

VARIABLES
    pc,        \* position of the running operation
    fp,        \* self.fp: the bytes of the stream
    pos,       \* self.fp.tell()
    info,      \* self.info: tag -> value
    tag,       \* local "tag" of _open / "type" of load (<<>> is None)
    size,      \* local "size" of _open / load
    offset,    \* local "offset" of _open / load / the JPEG walk
    mode,      \* self.mode ("" while undetermined)
    imsize,    \* self.size (<<>> while unset)
    tile,      \* self.tile (a sequence of tile records)
    exc,       \* the exception the operation raised last, "OK" if none
    consumed,  \* history: the (tag, size, tagdata) of each record _open's loop stored, in order
    caller,    \* who runs _open: "Image.open" or "getiptcinfo"
    result,    \* what getiptcinfo returned
    outfile,   \* load: state of the temporary file ("none", "open", "closed", "unlinked")
    staged,    \* load: bytes written to the temporary file
    im,        \* getiptcinfo: the container's block, im.app["APP13"] of a JPEG or
               \* im.tag.tagdata[IPTC_NAA_CHUNK] of a TIFF; None when it has none
    app,       \* getiptcinfo: local "app" of the JPEG branch
    data,      \* getiptcinfo: the extracted IPTC block (a value object)
    blocks,    \* history: the resource blocks the APP13 payload was built from
    m,         \* IcoImageFile._open: the selected directory entry
    idx,       \* IcoImageFile._open: loop index i
    bitmap,    \* IcoImageFile._open: the offset handed to self._bitmap (-1: not called)
    closing    \* where line 46 of IptcImagePlugin.py gets its missing parenthesis

vars == <<pc, fp, pos, info, tag, size, offset, mode, imsize, tile, exc, consumed,
          caller, result, outfile, staged, im, app, data, blocks, m, idx, bitmap,
          closing>>

openVars == <<info, mode, imsize, tile, consumed>>
loadVars == <<outfile, staged>>
jpegVars == <<im, app, data, blocks, result>>
icoVars  == <<m, idx, bitmap>>

-----------------------------------------------------------------------------
(* Bounds of the model. *)

\* Longest stream handed to a single field() call, in bytes.
MaxFieldLen == 9
\* Most record chunks in an IPTC stream.
MaxRecords == 3
\* Most directory entries in an icon file.
MaxEntries == 3
\* Most resource blocks in an APP13 payload.
MaxBlocks == 2

-----------------------------------------------------------------------------
(* Python values. *)

\* A value is a record: k is its Python type, b its bytes (the one number of an
\* int), l its elements (of a list).
None      == [k |-> "None",  b |-> <<>>, l |-> <<>>]
Bytes(s)  == [k |-> "bytes", b |-> s,    l |-> <<>>]
List(s)   == [k |-> "list",  b |-> <<>>, l |-> s]
PyInt(n)    == [k |-> "int",   b |-> <<n>>, l |-> <<>>]

NoTag == <<>>

Min(a, b) == IF a < b THEN a ELSE b

\* s[a:b] of Python for 0 <= a, with positions counted from 0.
Slice(s, a, b) ==
    LET hi == Min(b, Len(s))
    IN  IF a >= hi THEN <<>> ELSE SubSeq(s, a + 1, hi)

\* fp.read(n) at cursor p: the bytes returned; the cursor moves by their number.
Read(s, p, n) == Slice(s, p, p + n)

Raise(e) == [exc |-> e, val |-> 0]
Ok(v)    == [exc |-> "OK", val |-> v]

\* PAD = b'x00' * 4: the three characters 'x', '0', '0', four times.
PAD == <<120, 48, 48, 120, 48, 48, 120, 48, 48, 120, 48, 48>>

\* i16(c) = c[1] + (c[0]<<8); an IndexError when c has fewer than 2 bytes.
i16(c) ==
    IF Len(c) < 2 THEN Raise("IndexError") ELSE Ok(c[2] + c[1] * 256)

\* i32(c) = c[3] + (c[2]<<8) + (c[1]<<16) + (c[0]<<24).
i32(c) ==
    IF Len(c) < 4 THEN Raise("IndexError")
    ELSE Ok(c[4] + c[3] * 256 + c[2] * 65536 + c[1] * 16777216)

\* bytes(items) over a tuple or a list: one byte per element, in order; the
\* first element that is no integer raises TypeError, the first integer outside
\* 0..255 ValueError.
RECURSIVE BytesOfItems(_)
BytesOfItems(items) ==
    IF items = <<>> THEN Ok(<<>>)
    ELSE LET h == Head(items)
         IN  IF h.k # "int" THEN Raise("TypeError")
             ELSE IF h.b[1] < 0 \/ h.b[1] > 255 THEN Raise("ValueError")
             ELSE LET r == BytesOfItems(Tail(items))
                  IN  IF r.exc # "OK" THEN r ELSE Ok(<<h.b[1]>> \o r.val)

\* bytes((c,)): the bytes of the tuple whose one element is c.
BytesOfTuple(c) == BytesOfItems(<<c>>)

\* bytes(n) of an integer n >= 0: n zero bytes.
Zeros(n) == [k \in 1..n |-> 0]

\* bytes(c), which is what bytes((c),) says: a copy of a byte string, n zero
\* bytes of an integer n, the bytes of a list; None raises TypeError.
BytesOf(c) ==
    IF c.k = "bytes" THEN Ok(c.b)
    ELSE IF c.k = "int" THEN IF c.b[1] < 0 THEN Raise("ValueError") ELSE Ok(Zeros(c.b[1]))
    ELSE IF c.k = "list" THEN BytesOfItems(c.l)
    ELSE Raise("TypeError")

\* s[-n:] of Python: the last n bytes of s, all of s when it is shorter.
LastBytes(s, n) ==
    IF Len(s) <= n THEN s ELSE SubSeq(s, Len(s) - n + 1, Len(s))

\* Line 46 reads  return i32((PAD + bytes((c,))[-4:])  and lacks one closing
\* parenthesis.  The variable closing holds what the build made of that line,
\* for the whole run; no action changes it.
\*   "unclosed"   the line as written: importing the module raises SyntaxError
\*                and nothing of the module runs.
\* One ")" put into the line compiles at eight places:
\*   "outer"      i32((PAD + bytes((c,)))[-4:])
\*   "inner"      i32((PAD + bytes((c,))[-4:]))
\*   "padclose"   i32((PAD) + bytes((c,))[-4:])   or  i32((PAD )+ bytes((c,))[-4:])
\*   "cparen"     i32((PAD + bytes((c),))[-4:])
\*   "i32call"    i32()(PAD + bytes((c,))[-4:])
\*   "bytescall"  i32((PAD + bytes()(c,))[-4:])   or  i32((PAD + bytes)((c,))[-4:])
Closings == {"unclosed", "outer", "inner", "padclose", "cparen", "i32call", "bytescall"}

\* The module has been imported: its functions exist.
Imported == closing # "unclosed"

\* i(c) = i32((PAD + bytes((c,))[-4:]), closed as the variable closing says.
\* "i32call" calls i32 without its argument, "bytescall" calls a byte string or
\* adds a type to PAD: TypeError before c is used.  [-4:] binds tighter than +,
\* so "padclose" is the expression of "inner".
i(c) ==
    IF ~Imported THEN Raise("SyntaxError")
    ELSE IF closing \in {"i32call", "bytescall"} THEN Raise("TypeError")
    ELSE IF closing = "cparen"
    THEN LET t == BytesOf(c)
         IN  IF t.exc # "OK" THEN Raise(t.exc) ELSE i32(LastBytes(PAD \o t.val, 4))
    ELSE LET t == BytesOfTuple(c)
         IN  IF t.exc # "OK" THEN Raise(t.exc)
             ELSE IF closing = "outer" THEN i32(LastBytes(PAD \o t.val, 4))
             ELSE i32(PAD \o LastBytes(t.val, 4))

-----------------------------------------------------------------------------
(* IptcImageFile.field *)

FieldRet(e, t, sz, p) == [exc |-> e, tag |-> t, size |-> sz, pos |-> p]

\* The size of a header whose byte 3 is s[4] (1-based), read at cursor p.
FieldSize(stream, s, p) ==
    LET b == s[4] IN
    IF b > 132 THEN FieldRet("IOError", NoTag, 0, p)
    ELSE IF b = 128 THEN FieldRet("OK", <<s[2], s[3]>>, 0, p)
    ELSE IF b > 128 THEN
        LET ext == Read(stream, p, b - 128)
            v   == i(Bytes(ext))
        IN  FieldRet(v.exc, IF v.exc = "OK" THEN <<s[2], s[3]>> ELSE NoTag,
                     v.val, p + Len(ext))
    ELSE
        LET v == i16(Slice(s, 3, Len(s)))
        IN  FieldRet(v.exc, IF v.exc = "OK" THEN <<s[2], s[3]>> ELSE NoTag, v.val, p)

field(stream, p0) ==
    LET s == Read(stream, p0, 5)
        p == p0 + Len(s)
    IN  IF ~Imported THEN FieldRet("SyntaxError", NoTag, 0, p0)
        ELSE IF Len(s) = 0 THEN FieldRet("OK", NoTag, 0, p)
        ELSE IF Len(s) < 3 THEN FieldRet("IndexError", NoTag, 0, p)
        ELSE IF s[1] # 28 \/ s[2] < 1 \/ s[2] > 9 THEN FieldRet("SyntaxError", NoTag, 0, p)
        ELSE IF Len(s) < 4 THEN FieldRet("IndexError", NoTag, 0, p)
        ELSE FieldSize(stream, s, p)

-----------------------------------------------------------------------------
(* Inputs of a single field() call: a header built from chosen bytes, *)
(* followed by a fixed tail, cut to a chosen length.                   *)

FieldMarks   == {28, 0}
FieldRecords == {0, 1, 9, 10}
FieldSizes   == {0, 1, 50, 127, 128, 129, 130, 132, 133, 255}
FieldLows    == {0, 10}
FieldTail    == <<1, 44, 7, 2>>

FieldStreams ==
    { Slice(<<a, r, 5, b, c>> \o FieldTail, 0, n) :
        a \in FieldMarks, r \in FieldRecords, b \in FieldSizes, c \in FieldLows,
        n \in 0..MaxFieldLen }

Idle ==
    /\ info = <<>> /\ mode = "" /\ imsize = <<>> /\ tile = <<>> /\ consumed = <<>>
    /\ caller = "none" /\ result = [k |-> "unset", d |-> <<>>]
    /\ outfile = "none" /\ staged = <<>>
    /\ im = None /\ app = None /\ data = None /\ blocks = <<>>
    /\ m = <<>> /\ idx = 0 /\ bitmap = -1
    /\ tag = NoTag /\ size = 0 /\ offset = 0 /\ exc = "OK" /\ pos = 0
    /\ closing \in Closings

InitField ==
    /\ Idle
    /\ pc = "field"
    /\ fp \in FieldStreams

\* One call of field() on the stream, from its start.
CallField ==
    /\ pc = "field"
    /\ LET f == field(fp, pos)
       IN  /\ tag' = f.tag
           /\ size' = f.size
           /\ pos' = f.pos
           /\ exc' = f.exc
    /\ pc' = "returned"
    /\ UNCHANGED <<closing, fp, offset, caller, openVars, loadVars, jpegVars, icoVars>>

NextField == CallField

SpecField == InitField /\ [][NextField]_vars

-----------------------------------------------------------------------------
(* Claims about field() *)

\* The unsigned big-endian integer a byte string denotes.
RECURSIVE BigEndian(_)
BigEndian(s) ==
    IF s = <<>> THEN 0 ELSE BigEndian(SubSeq(s, 1, Len(s) - 1)) * 256 + s[Len(s)]

ValidHeader == Len(fp) >= 5 /\ fp[1] = 28 /\ fp[2] \in 1..9

\* C3: once the module is imported, for a 5-byte header with size byte b
\* (byte 3), field() returns size 256*b + byte 4 when b < 128, 0 when b = 128,
\* the big-endian integer of the next b - 128 bytes when 128 < b <= 132, and
\* raises the illegal-field-length error when b > 132.
FieldSizeDecoding ==
    (Imported /\ pc = "returned" /\ ValidHeader) =>
        LET b == fp[4] IN
        /\ b < 128 => (exc = "OK" /\ size = 256 * b + fp[5])
        /\ b = 128 => (exc = "OK" /\ size = 0)
        /\ (b > 128 /\ b <= 132 /\ Len(fp) >= 5 + (b - 128)) =>
               (exc = "OK" /\ size = BigEndian(SubSeq(fp, 6, 5 + (b - 128))))
        /\ b > 132 => exc = "IOError"

\* C4: once the module is imported, with fewer than 5 bytes left at the cursor,
\* field() reports "no more records" (tag None, size 0) and raises nothing.
TruncatedHeaderEndsStream ==
    (Imported /\ pc = "returned" /\ Len(fp) < 5) => (exc = "OK" /\ tag = NoTag /\ size = 0)

-----------------------------------------------------------------------------
(* IptcImageFile._open *)

COMPRESSION == [c \in {1, 5} |-> IF c = 1 THEN "raw" ELSE "jpeg"]

\* A str and a bytes object never compare equal, whatever their characters.
Str(s)      == [k |-> "str",   s |-> s]
ByteStr(s)  == [k |-> "bytes", s |-> s]

\* Accumulate with the promotion to a list left out: a later payload replaces
\* the stored one.
AccumulateOverwrite(inf, t, tagdata) ==
    [u \in (DOMAIN inf) \cup {t} |-> IF u = t THEN tagdata ELSE inf[u]]

\* Lines 125-131: the mapping after storing tagdata under tag t.
Accumulate(inf, t, tagdata) ==
    LET v == IF t \in DOMAIN inf
             THEN IF inf[t].k = "list"
                  THEN List(Append(inf[t].l, tagdata))
                  ELSE List(<<inf[t], tagdata>>)
             ELSE tagdata
    IN  [u \in (DOMAIN inf) \cup {t} |-> IF u = t THEN v ELSE inf[u]]

\* v[n] of Python for n >= 0: an int of a byte string, an element of a list.
Index(v, n) ==
    IF v.k = "bytes"
    THEN IF n < Len(v.b) THEN Ok(PyInt(v.b[n + 1])) ELSE Raise("IndexError")
    ELSE IF v.k = "list"
    THEN IF n < Len(v.l) THEN Ok(v.l[n + 1]) ELSE Raise("IndexError")
    ELSE Raise("TypeError")

\* self.info[key][n]
InfoIndex(inf, key, n) ==
    IF key \notin DOMAIN inf THEN Raise("KeyError") ELSE Index(inf[key], n)

\* Truth value of an object in "not component" / "and component".
Truthy(v) ==
    IF v.k = "int" THEN v.b[1] # 0
    ELSE IF v.k = "bytes" THEN Len(v.b) > 0
    ELSE IF v.k = "list" THEN Len(v.l) > 0
    ELSE FALSE

IsInt(v, n) == v.k = "int" /\ v.b[1] = n

\* letters[id] of Python: a negative id counts from the end.
StrIndex(letters, id) ==
    IF id >= 0 /\ id < Len(letters) THEN Ok(letters[id + 1])
    ELSE IF id < 0 /\ id >= 0 - Len(letters) THEN Ok(letters[Len(letters) + id + 1])
    ELSE Raise("IndexError")

\* Lines 138-141: id.
ChannelId(inf) ==
    IF <<3, 65>> \in DOMAIN inf
    THEN LET e == Index(inf[<<3, 65>>], 0)
         IN  IF e.exc # "OK" THEN Raise(e.exc)
             ELSE IF e.val.k = "int" THEN Ok(e.val.b[1] - 1)
             ELSE Raise("TypeError")
    ELSE Ok(0)

\* Lines 142-147: the mode, given layers, component and id; old is self.mode before.
ModeOf(layers, component, id, old) ==
    IF IsInt(layers, 1) /\ ~Truthy(component) THEN Ok("L")
    ELSE IF IsInt(layers, 3) /\ Truthy(component) THEN StrIndex(<<"R", "G", "B">>, id)
    ELSE IF IsInt(layers, 4) /\ Truthy(component) THEN StrIndex(<<"C", "M", "Y", "K">>, id)
    ELSE Ok(old)

\* getint(key) = i(self.info[key])
getint(inf, key) ==
    IF ~Imported THEN Raise("SyntaxError")
    ELSE IF key \notin DOMAIN inf THEN Raise("KeyError") ELSE i(inf[key])

\* Lines 152-156: a KeyError of the lookup or of getint becomes an IOError.
Compression(inf) ==
    LET g == getint(inf, <<3, 120>>)
    IN  IF g.exc = "KeyError" THEN Raise("IOError")
        ELSE IF g.exc # "OK" THEN Raise(g.exc)
        ELSE IF g.val \notin DOMAIN COMPRESSION THEN Raise("IOError")
        ELSE Ok(COMPRESSION[g.val])

\* _is_raw: returns 0 before its body.
IsRaw(off, sz) == FALSE

\* Lines 158-165: self.tile after _open, given the loop's last tag.
TileOf(t, compression, off, sz, dims, old) ==
    IF t = <<8, 10>>
    THEN IF compression = "raw" /\ IsRaw(off, dims)
         THEN << [type |-> Str(compression), args |-> <<off, sz + 5, -1>>,
                  box |-> <<0, 0, dims[1], dims[2]>>] >>
         ELSE << [type |-> Str("iptc"), args |-> <<compression, off>>,
                  box |-> <<0, 0, dims[1], dims[2]>>] >>
    ELSE old

DeriveRet(e, md, dims, tl) == [exc |-> e, mode |-> md, size |-> dims, tile |-> tl]

\* Lines 149-165, once the mode md is set.
DeriveSize(inf, t, off, sz, md, dims, tl) ==
    LET w == getint(inf, <<3, 20>>)
        h == getint(inf, <<3, 30>>)
        c == Compression(inf)
    IN  IF w.exc # "OK" THEN DeriveRet(w.exc, md, dims, tl)
        ELSE IF h.exc # "OK" THEN DeriveRet(h.exc, md, dims, tl)
        ELSE IF c.exc # "OK" THEN DeriveRet(c.exc, md, <<w.val, h.val>>, tl)
        ELSE DeriveRet("OK", md, <<w.val, h.val>>,
                       TileOf(t, c.val, off, sz, <<w.val, h.val>>, tl))

\* Lines 135-165: what _open does after its record loop.
Derive(inf, t, off, sz, md, dims, tl) ==
    LET layers    == InfoIndex(inf, <<3, 60>>, 0)
        component == InfoIndex(inf, <<3, 60>>, 1)
        id        == ChannelId(inf)
    IN  IF layers.exc # "OK" THEN DeriveRet(layers.exc, md, dims, tl)
        ELSE IF component.exc # "OK" THEN DeriveRet(component.exc, md, dims, tl)
        ELSE IF id.exc # "OK" THEN DeriveRet(id.exc, md, dims, tl)
        ELSE LET nm == ModeOf(layers.val, component.val, id.val, md)
             IN  IF nm.exc # "OK" THEN DeriveRet(nm.exc, md, dims, tl)
                 ELSE DeriveSize(inf, t, off, sz, nm.val, dims, tl)

\* Lines 116-131: one turn of the record loop.
OpenStep ==
    /\ pc = "loop"
    /\ LET f == field(fp, pos)
           tagdata == IF f.size # 0 THEN Bytes(Read(fp, f.pos, f.size)) ELSE None
       IN  /\ offset' = pos
           /\ IF f.exc # "OK"
              THEN /\ exc' = f.exc
                   /\ pc' = "failed"
                   /\ pos' = f.pos
                   /\ UNCHANGED <<tag, size, info, consumed>>
              ELSE /\ tag' = f.tag
                   /\ size' = f.size
                   /\ exc' = exc
                   /\ IF f.tag = NoTag \/ f.tag = <<8, 10>>
                      THEN /\ pc' = "derive"
                           /\ pos' = f.pos
                           /\ UNCHANGED <<info, consumed>>
                      ELSE /\ pc' = "loop"
                           /\ pos' = f.pos + Len(tagdata.b)
                           /\ info' = Accumulate(info, f.tag, tagdata)
                           /\ consumed' = Append(consumed, [tag |-> f.tag, size |-> f.size, val |-> tagdata])
    /\ UNCHANGED <<closing, fp, mode, imsize, tile, caller, loadVars, jpegVars, icoVars>>

\* Lines 135-165: mode, size, compression and tile.
OpenDerive ==
    /\ pc = "derive"
    /\ LET d == Derive(info, tag, offset, size, mode, imsize, tile)
       IN  /\ mode' = d.mode
           /\ imsize' = d.size
           /\ tile' = d.tile
           /\ exc' = d.exc
    /\ pc' = "opened"
    /\ UNCHANGED <<closing, fp, pos, info, tag, size, offset, consumed, caller,
                   loadVars, jpegVars, icoVars>>

-----------------------------------------------------------------------------
(* getiptcinfo: the part after the container-specific extraction *)

NoResult      == [k |-> "unset", d |-> <<>>]
ResultNone    == [k |-> "None",  d |-> <<>>]
ResultDict(d) == [k |-> "dict",  d |-> d]

\* Lines 233-235: getiptcinfo on an IptcImageFile, the image Image.open
\* returned: its info mapping is returned right away, nothing is parsed.
GetIptcInfoOpened ==
    /\ pc = "opened" /\ exc = "OK" /\ caller = "Image.open"
    /\ result' = ResultDict(info)
    /\ pc' = "done"
    /\ UNCHANGED <<closing, fp, pos, info, tag, size, offset, mode, imsize, tile, exc, consumed,
                   caller, im, app, data, blocks, loadVars, icoVars>>

\* Lines 269-275: the TIFF branch; a missing tag is a KeyError, passed over.
GetIptcInfoTiff ==
    /\ pc = "tiff"
    /\ IF ~Imported
       THEN exc' = "SyntaxError" /\ pc' = "raised" /\ data' = data
       ELSE exc' = exc /\ pc' = "data" /\ data' = im
    /\ UNCHANGED <<closing, fp, pos, info, tag, size, offset, mode, imsize, tile, consumed,
                   caller, result, im, app, blocks, loadVars, icoVars>>

\* Lines 277-288: no block, no properties; else a bare IptcImageFile over the block.
GetIptcInfoData ==
    /\ pc = "data"
    /\ IF data.k = "None"
       THEN /\ result' = ResultNone
            /\ pc' = "done"
            /\ UNCHANGED <<fp, pos, info>>
       ELSE /\ info' = <<>>
            /\ fp' = data.b
            /\ pos' = 0
            /\ pc' = "loop"
            /\ UNCHANGED result
    /\ UNCHANGED <<closing, tag, size, offset, mode, imsize, tile, exc, consumed, caller,
                   im, app, data, blocks, loadVars, icoVars>>

\* Expected widened to the errors field() raises.
ExpectedAll == {"IndexError", "KeyError", "SyntaxError", "IOError"}

\* The exceptions of _open that lines 290-293 pass over.
Expected == {"IndexError", "KeyError"}

\* Lines 290-295: _open has left; expected failures are passed over.
GetIptcInfoReturn ==
    /\ pc \in {"failed", "opened"}
    /\ caller = "getiptcinfo"
    /\ IF exc = "OK" \/ exc \in Expected
       THEN /\ result' = ResultDict(info)
            /\ pc' = "done"
       ELSE /\ pc' = "raised"
            /\ UNCHANGED result
    /\ UNCHANGED <<closing, fp, pos, info, tag, size, offset, mode, imsize, tile, exc, consumed,
                   caller, im, app, data, blocks, loadVars, icoVars>>

-----------------------------------------------------------------------------
(* Inputs: IPTC streams built from record chunks. *)

RECURSIVE Flatten(_)
Flatten(ss) == IF ss = <<>> THEN <<>> ELSE Head(ss) \o Flatten(Tail(ss))

\* A record with a short-form size.
Rec(r, d, payload) == <<28, r, d, Len(payload) \div 256, Len(payload) % 256>> \o payload

OpenChunks ==
    { Rec(2, 5, <<65>>), Rec(2, 5, <<66>>),
      <<28, 2, 5, 128, 0>>,
      Rec(8, 10, <<7>>),
      <<28, 2, 5, 130, 0, 1, 44>>,
      <<0, 2, 5, 0, 0>>,
      <<28, 10, 5, 0, 0>>,
      <<28, 2, 5, 133, 0>>,
      <<28>> }

ChunkSeqs(chunks, n) == UNION { [1..k -> chunks] : k \in 0..n }

\* The four tags _open derives mode, size and compression from.
ImageHeader(layers, c) ==
    Rec(3, 60, layers) \o Rec(3, 20, <<0, 0, 0, 2>>) \o Rec(3, 30, <<0, 0, 0, 3>>)
        \o Rec(3, 120, <<0, 0, 0, c>>)

ImageStreams ==
    { ImageHeader(ly, c) \o Flatten(cs) :
        ly \in {<<1, 0>>, <<3, 1>>}, c \in {1, 5, 2},
        cs \in ChunkSeqs({Rec(2, 5, <<65>>), Rec(8, 10, <<7>>)}, 2) }

\* The tags the mode is derived from: layers and component flag, then a channel
\* id or none, then nothing more, a width or the marker.
ModeStreams ==
    { Rec(3, 60, ly) \o id \o rest :
        ly \in {<<1, 0>>, <<3, 1>>, <<4, 1>>, <<3, 0>>},
        id \in {<<>>, Rec(3, 65, <<0>>), Rec(3, 65, <<2>>), Rec(3, 65, <<4>>)},
        rest \in {<<>>, Rec(3, 20, <<0, 0, 0, 2>>), Rec(8, 10, <<7>>)} }

OpenStreams ==
    { Flatten(cs) : cs \in ChunkSeqs(OpenChunks, MaxRecords) }
        \cup ModeStreams \cup ImageStreams

InitOpen ==
    /\ info = <<>> /\ mode = "" /\ imsize = <<>> /\ tile = <<>> /\ consumed = <<>>
    /\ result = NoResult
    /\ outfile = "none" /\ staged = <<>>
    /\ blocks = <<>>
    /\ m = <<>> /\ idx = 0 /\ bitmap = -1
    /\ tag = NoTag /\ size = 0 /\ offset = 0 /\ exc = "OK" /\ pos = 0
    /\ closing \in Closings
    /\ data = None /\ app = None
    /\ \/ /\ caller = "Image.open"
          /\ pc = "loop"
          /\ fp \in OpenStreams
          /\ im = None
       \/ /\ caller = "getiptcinfo"
          /\ pc = "tiff"
          /\ fp = <<>>
          /\ im \in {None} \cup { Bytes(s) : s \in OpenStreams }

NextOpen ==
    \/ OpenStep
    \/ OpenDerive
    \/ GetIptcInfoOpened
    \/ GetIptcInfoTiff
    \/ GetIptcInfoData
    \/ GetIptcInfoReturn

SpecOpen == InitOpen /\ [][NextOpen]_vars

-----------------------------------------------------------------------------
(* Claims about _open and getiptcinfo *)

\* The tagdata stored for tag t, in arrival order.
RECURSIVE PayloadsOf(_, _)
PayloadsOf(recs, t) ==
    IF recs = <<>> THEN <<>>
    ELSE IF Head(recs).tag = t THEN <<Head(recs).val>> \o PayloadsOf(Tail(recs), t)
    ELSE PayloadsOf(Tail(recs), t)

TagsSeen == { consumed[n].tag : n \in 1..Len(consumed) }

\* C5: a tag stored once maps to its payload as a scalar, a tag stored n >= 2
\* times maps to the list of its payloads in arrival order, a zero-size record
\* contributes the absent payload, and no other tag is a key of the mapping.
MultiValuedAccumulation ==
    /\ DOMAIN info = TagsSeen
    /\ \A n \in 1..Len(consumed) :
           IF consumed[n].size = 0 THEN consumed[n].val = None
           ELSE consumed[n].val.k = "bytes"
    /\ \A t \in TagsSeen :
           LET ps == PayloadsOf(consumed, t)
           IN  IF Len(ps) = 1 THEN info[t] = ps[1] ELSE info[t] = List(ps)

\* A tag stored three times, one payload absent, beside a tag stored once.
MultiValuedWitness ==
    /\ pc = "derive"
    /\ \E t \in TagsSeen :
           /\ Len(PayloadsOf(consumed, t)) = 3
           /\ info[t].k = "list" /\ Len(info[t].l) = 3
           /\ info[t].l[2] = None
           /\ info[t].l[1] # info[t].l[3]

\* C2 as claimed: once the module is imported, getiptcinfo never passes an
\* error of the parse on to its caller.
BestEffortNeverRaises ==
    (Imported /\ caller = "getiptcinfo") => pc # "raised"

\* C2 amended: getiptcinfo returns, None without a block and the mapping
\* otherwise, exactly when _open ended normally or with an IndexError or a
\* KeyError; every other error of _open reaches the caller.
BestEffortExpectedOnly ==
    caller = "getiptcinfo" =>
        /\ pc = "done" =>
               /\ exc \in {"OK", "IndexError", "KeyError"}
               /\ IF data = None THEN result = ResultNone ELSE result = ResultDict(info)
        /\ pc = "raised" =>
               /\ exc \in {"SyntaxError", "IOError", "TypeError"}
               /\ result = NoResult

\* getiptcinfo returned a mapping with a key after _open ended with a KeyError.
BestEffortWitness ==
    /\ caller = "getiptcinfo" /\ pc = "done"
    /\ exc = "KeyError"
    /\ result.k = "dict" /\ <<2, 5>> \in DOMAIN result.d

\* The first two bytes of tag (3,60) and the first of tag (3,65), when those
\* tags hold byte strings long enough.
ModeTagsPresent ==
    /\ <<3, 60>> \in DOMAIN info
    /\ info[<<3, 60>>].k = "bytes" /\ Len(info[<<3, 60>>].b) >= 2
    /\ <<3, 65>> \in DOMAIN info =>
           (info[<<3, 65>>].k = "bytes" /\ Len(info[<<3, 65>>].b) >= 1)

ClaimedMode ==
    LET layers == info[<<3, 60>>].b[1]
        flag   == info[<<3, 60>>].b[2]
        id     == IF <<3, 65>> \in DOMAIN info THEN info[<<3, 65>>].b[1] - 1 ELSE 0
    IN  IF layers = 1 /\ flag = 0 THEN "L"
        ELSE IF layers = 3 /\ flag # 0 /\ id \in 0..2 THEN <<"R", "G", "B">>[id + 1]
        ELSE IF layers = 4 /\ flag # 0 /\ id \in 0..3 THEN <<"C", "M", "Y", "K">>[id + 1]
        ELSE ""

\* C7: after _open, the mode is "L" for layers 1 without component flag, the letter of
\* "RGB" / "CMYK" at the channel id for layers 3 / 4 with the flag and an id in
\* range, and stays undetermined for every other combination.
ModeResolution ==
    (Imported /\ pc = "opened" /\ ModeTagsPresent) => mode = ClaimedMode

\* The image tags _open needs to reach its tile: layers, width, height and a
\* compression of the table.
ImageTagsPresent ==
    /\ ModeTagsPresent
    /\ \A t \in {<<3, 20>>, <<3, 30>>, <<3, 120>>} :
           t \in DOMAIN info /\ info[t].k = "bytes" /\ Len(info[t].b) = 4
    /\ BigEndian(info[<<3, 120>>].b) \in DOMAIN COMPRESSION

RECURSIVE EncodedLen(_)
EncodedLen(recs) ==
    IF recs = <<>> THEN 0 ELSE 5 + Len(Head(recs).val.b) + EncodedLen(Tail(recs))

\* C9: on a stream that carries the image tags, _open sets a tile if and only
\* if its loop stopped on the (8,10) marker, that tile is the staging tile
\* ("iptc", (compression, offset), (0, 0, width, height)) with offset the cursor
\* position of the marker's header, and (8,10) is no key of the mapping.
MarkerTileFraming ==
    (Imported /\ pc = "opened" /\ ImageTagsPresent) =>
        /\ <<8, 10>> \notin DOMAIN info
        /\ (tile # <<>>) <=> (tag = <<8, 10>>)
        /\ tag = <<8, 10>> =>
               /\ Len(tile) = 1
               /\ tile[1].type.s = "iptc"
               /\ tile[1].args[1] = COMPRESSION[BigEndian(info[<<3, 120>>].b)]
               /\ tile[1].args[2] = EncodedLen(consumed)
               /\ tile[1].box = <<0, 0, BigEndian(info[<<3, 20>>].b),
                                  BigEndian(info[<<3, 30>>].b)>>

-----------------------------------------------------------------------------
(* IptcImageFile.load *)

\* Bytes per read of the copy loop.
ChunkSize == 8192

\* The decimal digits of n >= 0, as character codes.
RECURSIVE Decimal(_)
Decimal(n) == IF n < 10 THEN <<48 + n>> ELSE Decimal(n \div 10) \o <<48 + (n % 10)>>

\* "P5\n{0} {1}\n255\n".format(*self.size).encode('latin_1')
PpmHeader(dims) ==
    <<80, 53, 10>> \o Decimal(dims[1]) \o <<32>> \o Decimal(dims[2]) \o <<10, 50, 53, 53, 10>>

\* Line 169: a single tile whose type equals b"iptc".
IsIptcTile(tl) == Len(tl) = 1 /\ tl[1].type = ByteStr("iptc")

LoadRet(e, p, f, st) == [exc |-> e, pos |-> p, outfile |-> f, staged |-> st]

\* Lines 190-195: the copy loop of one record of sz bytes, from cursor p, with
\* st written so far.  Each o.write may be refused by the system (an IOError
\* that leaves load with the file open); the set holds every way the loop ends.
RECURSIVE CopyRecord(_, _, _, _)
CopyRecord(stream, p, sz, st) ==
    LET s == Read(stream, p, Min(sz, ChunkSize))
    IN  IF sz <= 0 \/ Len(s) = 0 THEN { LoadRet("OK", p, "open", st) }
        ELSE { LoadRet("IOError", p + Len(s), "open", st) }
                 \cup CopyRecord(stream, p + Len(s), sz - Len(s), st \o s)

\* Lines 186-195: the record loop from cursor p: it ends at the first record
\* that is no (8,10) record, by an error of field(), or by a refused write.
RECURSIVE StageRecords(_, _, _)
StageRecords(stream, p, st) ==
    LET f == field(stream, p)
    IN  IF f.exc # "OK" THEN { LoadRet(f.exc, f.pos, "open", st) }
        ELSE IF f.tag # <<8, 10>> THEN { LoadRet("OK", f.pos, "open", st) }
        ELSE UNION { IF c.exc # "OK" THEN {c} ELSE StageRecords(stream, c.pos, c.staged) :
                       c \in CopyRecord(stream, f.pos, f.size, st) }

\* Lines 196-211, after the record loop: o.close() may be refused (the file
\* stays open); else the fast opener or the generic one decodes the file, or
\* both fail and the error of the generic one leaves load; os.unlink is tried in
\* each case, and an unlink the system refuses is passed over by the bare
\* except: the file stays.
StageFinish(r) ==
    { LoadRet("IOError", r.pos, "open", r.staged) }
        \cup { LoadRet(e, r.pos, f, r.staged) :
                 e \in {"OK", "IOError"}, f \in {"unlinked", "closed"} }

\* Lines 171-211: staging for the tile tl of an image of size dims.  open() may
\* be refused before there is a file, and so may the write of the header.
Stage(stream, tl, dims) ==
    LET encoding == tl[1].args[1]
        off      == tl[1].args[2]
    IN  { LoadRet("IOError", off, "none", <<>>) }
            \cup (IF encoding = "raw" THEN { LoadRet("IOError", off, "open", <<>>) } ELSE {})
            \cup UNION { IF r.exc # "OK" THEN {r} ELSE StageFinish(r) :
                           r \in StageRecords(stream, off,
                                              IF encoding = "raw" THEN PpmHeader(dims) ELSE <<>>) }

\* load(), called on the image that Image.open returned: lines 169-170 hand
\* over to ImageFile.load unless the one tile has type b"iptc".
Load ==
    /\ pc = "opened" /\ exc = "OK" /\ caller = "Image.open"
    /\ IF ~IsIptcTile(tile)
       THEN /\ pc' = "generic"
            /\ UNCHANGED <<exc, pos, outfile, staged>>
       ELSE \E r \in Stage(fp, tile, imsize) :
                /\ pc' = IF r.exc = "OK" THEN "loaded" ELSE "raised"
                /\ exc' = r.exc
                /\ pos' = r.pos
                /\ outfile' = r.outfile
                /\ staged' = r.staged
    /\ UNCHANGED <<closing, fp, info, tag, size, offset, mode, imsize, tile, consumed, caller,
                   jpegVars, icoVars>>

\* Inputs: records that may follow the image tags.
LoadChunks ==
    { Rec(8, 10, <<7>>), Rec(8, 10, <<8, 9>>),
      <<28, 8, 10, 128, 0>>,
      Rec(2, 5, <<65>>),
      <<0, 8, 10, 0, 0>>,
      <<28, 8, 10, 0, 3, 65>>,
      <<28, 8, 10, 130, 0, 0, 1>>,
      <<28>> }

\* Streams with the image tags, then up to MaxRecords further records.
LoadStreams ==
    { ImageHeader(ly, c) \o Flatten(cs) :
        ly \in {<<1, 0>>, <<3, 1>>}, c \in {1, 5, 2},
        cs \in ChunkSeqs(LoadChunks, MaxRecords) }

\* Image.open runs _open on the stream; load follows when _open has succeeded.
InitLoad ==
    /\ info = <<>> /\ mode = "" /\ imsize = <<>> /\ tile = <<>> /\ consumed = <<>>
    /\ caller = "Image.open" /\ result = NoResult
    /\ outfile = "none" /\ staged = <<>>
    /\ im = None /\ app = None /\ data = None /\ blocks = <<>>
    /\ m = <<>> /\ idx = 0 /\ bitmap = -1
    /\ tag = NoTag /\ size = 0 /\ offset = 0 /\ exc = "OK" /\ pos = 0
    /\ closing \in Closings
    /\ pc = "loop"
    /\ fp \in LoadStreams

NextLoad ==
    \/ OpenStep
    \/ OpenDerive
    \/ Load

SpecLoad == InitLoad /\ [][NextLoad]_vars

-----------------------------------------------------------------------------
(* Claims about load *)

LoadLeft == pc \in {"generic", "loaded", "raised"}

\* A single tile of type "iptc", the str that line 164 of _open stores.
IsIptcTileStr(tl) == Len(tl) = 1 /\ tl[1].type = Str("iptc")

\* The payloads of the run of (8,10) records that starts at cursor p.
RECURSIVE MarkerRun(_, _)
MarkerRun(s, p) ==
    IF Len(s) - p >= 5 /\ s[p + 1] = 28 /\ s[p + 2] = 8 /\ s[p + 3] = 10 /\ s[p + 4] <= 128
    THEN LET n == IF s[p + 4] = 128 THEN 0 ELSE s[p + 4] * 256 + s[p + 5]
         IN  Slice(s, p + 5, p + 5 + n) \o MarkerRun(s, p + 5 + n)
    ELSE <<>>

StagedExpected ==
    (IF tile[1].args[1] = "raw" THEN PpmHeader(imsize) ELSE <<>>)
        \o MarkerRun(fp, tile[1].args[2])

\* C10: load on the single staging tile that _open sets runs the staging
\* procedure, and the staged file holds, when it is closed, the raster header
\* if and only if the compression is "raw", then the payloads of the run of (8,10)
\* records at the tile's offset, and nothing else.
StagedContent ==
    (Imported /\ IsIptcTileStr(tile) /\ LoadLeft) =>
        /\ pc # "generic"
        /\ outfile \in {"closed", "unlinked"} => staged = StagedExpected

-----------------------------------------------------------------------------
(* getiptcinfo: the JPEG branch *)

\* b"Photoshop 3.0\x00"
Signature == <<80, 104, 111, 116, 111, 115, 104, 111, 112, 32, 51, 46, 48, 0>>
\* b"8BIM"
Marker8BIM == <<56, 66, 73, 77>>
\* 0x0404
IptcResource == 1028

\* JpegImagePlugin.i16(c, o): the big-endian 16-bit integer at offset o.
JpegI16(c, o) ==
    IF o + 2 > Len(c) THEN Raise("IndexError") ELSE Ok(c[o + 2] + c[o + 1] * 256)

\* JpegImagePlugin.i32(c, o): the big-endian 32-bit integer at offset o.
JpegI32(c, o) ==
    IF o + 4 > Len(c) THEN Raise("IndexError")
    ELSE Ok(c[o + 4] + c[o + 3] * 256 + c[o + 2] * 65536 + c[o + 1] * 16777216)

\* PadEven with the padding left out.
NoPad(o) == o

\* "if offset & 1: offset = offset + 1"
PadEven(o) == IF o % 2 = 1 THEN o + 1 ELSE o

WalkRet(e, off, d, found) == [exc |-> e, offset |-> off, data |-> d, found |-> found]

\* Lines 246-265: one resource block at offset off of a.
WalkBlock(a, off) ==
    LET code == JpegI16(a, off + 4)
        o2   == off + 6
    IN  IF code.exc # "OK" THEN WalkRet(code.exc, off + 4, None, FALSE)
        ELSE IF o2 >= Len(a) THEN WalkRet("IndexError", o2, None, FALSE)
        ELSE LET name_len == a[o2 + 1]
                 o3 == PadEven(1 + o2 + name_len)
                 sz == JpegI32(a, o3)
             IN  IF sz.exc # "OK" THEN WalkRet(sz.exc, o3, None, FALSE)
                 ELSE IF code.val = IptcResource
                 THEN WalkRet("OK", o3 + 4, Bytes(Slice(a, o3 + 4, o3 + 4 + sz.val)), TRUE)
                 ELSE WalkRet("OK", PadEven(o3 + 4 + sz.val), None, FALSE)

\* Lines 237-244: APP13 must be there and begin with the signature.
JpegEnter ==
    /\ pc = "jpeg"
    /\ IF ~Imported
       THEN /\ exc' = "SyntaxError"
            /\ pc' = "raised"
            /\ UNCHANGED <<app, offset>>
       ELSE IF im.k = "None" \/ Slice(im.b, 0, 14) # Signature
       THEN /\ pc' = "data"
            /\ UNCHANGED <<exc, app, offset>>
       ELSE /\ app' = Bytes(Slice(im.b, 14, Len(im.b)))
            /\ offset' = 0
            /\ exc' = exc
            /\ pc' = "walk"
    /\ UNCHANGED <<closing, fp, pos, info, tag, size, mode, imsize, tile, consumed, caller,
                   result, im, data, blocks, loadVars, icoVars>>

\* Lines 245-265: one turn of the resource block loop.
JpegBlock ==
    /\ pc = "walk"
    /\ IF Slice(app.b, offset, offset + 4) # Marker8BIM
       THEN /\ pc' = "data"
            /\ UNCHANGED <<offset, data, exc>>
       ELSE LET w == WalkBlock(app.b, offset)
            IN  /\ offset' = w.offset
                /\ exc' = w.exc
                /\ data' = w.data
                /\ pc' = IF w.exc # "OK" THEN "raised"
                         ELSE IF w.found THEN "data" ELSE "walk"
    /\ UNCHANGED <<closing, fp, pos, info, tag, size, mode, imsize, tile, consumed, caller,
                   result, im, app, blocks, loadVars, icoVars>>

\* Inputs: an APP13 payload built from resource blocks.
BigEndian16(n) == <<n \div 256, n % 256>>
BigEndian32(n) == <<n \div 16777216, (n \div 65536) % 256, (n \div 256) % 256, n % 256>>

PadTo(s) == IF Len(s) % 2 = 1 THEN s \o <<0>> ELSE s

EncodeBlock(b) ==
    Marker8BIM \o BigEndian16(b.id) \o PadTo(<<Len(b.name)>> \o b.name)
        \o BigEndian32(Len(b.payload)) \o PadTo(b.payload)

RECURSIVE EncodeBlocks(_)
EncodeBlocks(bs) ==
    IF bs = <<>> THEN <<>> ELSE EncodeBlock(Head(bs)) \o EncodeBlocks(Tail(bs))

JpegBlocks ==
    [ id : {1026, IptcResource},
      name : {<<>>, <<97>>, <<97, 98>>},
      payload : {<<>>, Rec(2, 5, <<65>>), Rec(2, 5, <<65>>) \o <<28>>} ]

\* A signature of another version.
OtherSignature == <<80, 104, 111, 116, 111, 115, 104, 111, 112, 32, 50, 46, 53, 0>>

InitJpeg ==
    /\ info = <<>> /\ mode = "" /\ imsize = <<>> /\ tile = <<>> /\ consumed = <<>>
    /\ result = NoResult
    /\ outfile = "none" /\ staged = <<>>
    /\ m = <<>> /\ idx = 0 /\ bitmap = -1
    /\ tag = NoTag /\ size = 0 /\ offset = 0 /\ exc = "OK" /\ pos = 0
    /\ closing \in Closings
    /\ fp = <<>> /\ data = None /\ app = None
    /\ caller = "getiptcinfo"
    /\ pc = "jpeg"
    /\ \/ im = None /\ blocks = <<>>
       \/ /\ blocks \in ChunkSeqs(JpegBlocks, MaxBlocks)
          /\ \E sig \in {Signature, OtherSignature}, trailer \in {<<>>, Marker8BIM} :
                 im = Bytes(sig \o EncodeBlocks(blocks) \o trailer)

NextJpeg ==
    \/ JpegEnter
    \/ JpegBlock
    \/ GetIptcInfoData
    \/ OpenStep
    \/ OpenDerive
    \/ GetIptcInfoReturn

SpecJpeg == InitJpeg /\ [][NextJpeg]_vars

-----------------------------------------------------------------------------
(* Claims about the JPEG branch *)

RECURSIVE FirstIptcPayload(_)
FirstIptcPayload(bs) ==
    IF bs = <<>> THEN None
    ELSE IF Head(bs).id = IptcResource THEN Bytes(Head(bs).payload)
    ELSE FirstIptcPayload(Tail(bs))

\* C8: once the walk over an APP13 payload has ended (there is a walk only in
\* an imported module), the captured block is exactly the payload of the first
\* resource block with id 0x0404 when the payload begins with the signature, and
\* None when no block has that id, when the signature is absent or when there
\* is no APP13 segment.
ResourceBlockWalk ==
    (Imported /\ pc \notin {"jpeg", "walk"}) =>
        data = IF im.k = "bytes" /\ Slice(im.b, 0, 14) = Signature
               THEN FirstIptcPayload(blocks)
               ELSE None

\* A 0x0402 block with a padded name and a padded payload, then the 0x0404
\* block whose payload was captured.
ResourceBlockWitness ==
    /\ pc = "data"
    /\ Len(blocks) = 2
    /\ blocks[1].id = 1026 /\ Len(blocks[1].name) = 2 /\ Len(blocks[1].payload) = 7
    /\ blocks[2].id = IptcResource /\ Len(blocks[2].name) = 0
    /\ blocks[2].payload # <<>>
    /\ data = Bytes(blocks[2].payload)

-----------------------------------------------------------------------------
(* IcoImageFile._open *)

\* IcoImagePlugin.i16: little-endian.
ico_i16(c) ==
    IF Len(c) < 2 THEN Raise("IndexError") ELSE Ok(c[1] + c[2] * 256)

\* IcoImagePlugin.i32: little-endian.
ico_i32(c) ==
    IF Len(c) < 4 THEN Raise("IndexError")
    ELSE Ok(c[1] + c[2] * 256 + c[3] * 65536 + c[4] * 16777216)

\* _accept(prefix)
Accept(prefix) == Slice(prefix, 0, 4) = <<0, 0, 1, 0>>

\* The number of directory entries: i16(s[4:]) of the 6-byte header.
IcoCount(stream) == ico_i16(Slice(Read(stream, 0, 6), 4, 6))

\* Larger with "or" in place of "and".
LargerEither(s, sel) == s[1] > sel[1] \/ s[2] > sel[2]

\* Line 60: s[0] > m[0] and s[1] > m[1], on entries of two bytes or more.
Larger(s, sel) == s[1] > sel[1] /\ s[2] > sel[2]

\* Lines 58-61: the selection after reading entry s; <<>> is the empty b"".
Select(sel, s) ==
    IF sel = <<>> THEN Ok(s)
    ELSE IF Len(s) < 1 THEN Raise("IndexError")
    ELSE IF Len(s) < 2 \/ Len(sel) < 2
         THEN IF s[1] > sel[1] THEN Raise("IndexError") ELSE Ok(sel)
    ELSE IF Larger(s, sel) THEN Ok(s) ELSE Ok(sel)

\* Lines 50-56: the magic and the entry count.
IcoEnter ==
    /\ pc = "ico"
    /\ LET s == Read(fp, 0, 6)
       IN  /\ pos' = Len(s)
           /\ IF ~Accept(s) THEN exc' = "SyntaxError" /\ pc' = "raised"
              ELSE IF IcoCount(fp).exc # "OK"
              THEN exc' = IcoCount(fp).exc /\ pc' = "raised"
              ELSE exc' = exc /\ pc' = "scan"
    /\ m' = <<>>
    /\ idx' = 0
    /\ UNCHANGED <<closing, fp, info, tag, size, offset, mode, imsize, tile, consumed, caller,
                   bitmap, loadVars, jpegVars>>

\* Lines 56-61: one directory entry.
IcoEntry ==
    /\ pc = "scan"
    /\ idx < IcoCount(fp).val
    /\ LET s == Read(fp, pos, 16)
           r == Select(m, s)
       IN  /\ pos' = pos + Len(s)
           /\ IF r.exc # "OK"
              THEN exc' = r.exc /\ pc' = "raised" /\ UNCHANGED <<m, idx>>
              ELSE m' = r.val /\ idx' = idx + 1 /\ UNCHANGED <<exc, pc>>
    /\ UNCHANGED <<closing, fp, info, tag, size, offset, mode, imsize, tile, consumed, caller,
                   bitmap, loadVars, jpegVars>>

\* The sizes (width, rawHeight) the bitmap decoder may report.
BmpSizes == {<<64, 128>>, <<16, 33>>}

\* Lines 71-77: the bitmap at the selected entry's dataOffset, its height halved.
IcoBitmap ==
    /\ pc = "scan"
    /\ idx = IcoCount(fp).val
    /\ LET o == ico_i32(Slice(m, 12, Len(m)))
       IN  IF o.exc # "OK"
           THEN /\ exc' = o.exc
                /\ pc' = "raised"
                /\ UNCHANGED <<bitmap, imsize, tile>>
           ELSE /\ bitmap' = o.val
                /\ \E dims \in BmpSizes :
                       /\ imsize' = <<dims[1], dims[2] \div 2>>
                       /\ tile' = << [type |-> Str("raw"), args |-> <<o.val>>,
                                      box |-> <<0, 0, dims[1], dims[2] \div 2>>] >>
                /\ pc' = "opened"
                /\ exc' = exc
    /\ UNCHANGED <<closing, fp, pos, info, tag, size, offset, mode, consumed, caller, m, idx,
                   loadVars, jpegVars>>

\* Inputs: an icon file of n entries, with a header count of n or n + 1.
LittleEndian32(n) ==
    <<n % 256, (n \div 256) % 256, (n \div 65536) % 256, n \div 16777216>>

IcoWidths  == {0, 16, 32, 48}
IcoHeights == {16, 24, 32}

\* Entry k of a directory: width, height, colors, reserved, planes, bitcount,
\* byte size and a dataOffset of its own.
IcoEntryBytes(w, h, k) ==
    <<w, h, 0, 0, 1, 0, 32, 0>> \o LittleEndian32(4264) \o LittleEndian32(70 + 4264 * k)

RECURSIVE IcoDirectory(_, _)
IcoDirectory(dims, k) ==
    IF k > Len(dims) THEN <<>>
    ELSE IcoEntryBytes(dims[k][1], dims[k][2], k) \o IcoDirectory(dims, k + 1)

IcoFiles ==
    { <<0, 0, 1, 0, c, 0>> \o IcoDirectory(dims, 1) :
        c \in 0..(MaxEntries + 1),
        dims \in ChunkSeqs(IcoWidths \X IcoHeights, MaxEntries) }
    \cup { <<0, 0, 2, 0, 1, 0>> \o IcoDirectory(<< <<16, 16>> >>, 1), <<0, 0, 1, 0, 1>> }

InitIco ==
    /\ info = <<>> /\ mode = "" /\ imsize = <<>> /\ tile = <<>> /\ consumed = <<>>
    /\ caller = "Image.open" /\ result = NoResult
    /\ outfile = "none" /\ staged = <<>>
    /\ im = None /\ app = None /\ data = None /\ blocks = <<>>
    /\ m = <<>> /\ idx = 0 /\ bitmap = -1
    /\ tag = NoTag /\ size = 0 /\ offset = 0 /\ exc = "OK" /\ pos = 0
    /\ closing = "unclosed"    \* IcoImagePlugin.py does not import the IPTC plugin
    /\ pc = "ico"
    /\ fp \in IcoFiles

NextIco ==
    \/ IcoEnter
    \/ IcoEntry
    \/ IcoBitmap

SpecIco == InitIco /\ [][NextIco]_vars

-----------------------------------------------------------------------------
(* Claims about the icon directory *)

\* Entry k (from 1) of the file's directory.
DirEntry(k) == SubSeq(fp, 7 + 16 * (k - 1), 6 + 16 * k)

\* The entries the file holds in full.
EntriesInFile == (Len(fp) - 6) \div 16

\* The index selected among the first k entries: the first, then each later
\* entry that is strictly wider and strictly higher than the selected one.
RECURSIVE Selected(_)
Selected(k) ==
    IF k = 1 THEN 1
    ELSE LET p == Selected(k - 1)
         IN  IF DirEntry(k)[1] > DirEntry(p)[1] /\ DirEntry(k)[2] > DirEntry(p)[2]
             THEN k ELSE p

DirDims == [k \in 1..EntriesInFile |-> <<DirEntry(k)[1], DirEntry(k)[2]>>]

\* C6: after each entry of a directory of one or more entries the selection
\* is the first entry, replaced by each later entry that is strictly wider and
\* strictly higher than it; [(16,16),(32,32),(48,32)] selects (32,32),
\* [(16,16),(32,24),(48,32)] selects (48,32); the bitmap decoder gets the
\* dataOffset of the entry selected last.
DirectorySelection ==
    (pc \in {"scan", "opened"} /\ idx >= 1 /\ idx <= EntriesInFile) =>
        /\ m = DirEntry(Selected(idx))
        /\ (idx = 3 /\ DirDims = << <<16, 16>>, <<32, 32>>, <<48, 32>> >>)
               => <<m[1], m[2]>> = <<32, 32>>
        /\ (idx = 3 /\ DirDims = << <<16, 16>>, <<32, 24>>, <<48, 32>> >>)
               => <<m[1], m[2]>> = <<48, 32>>
        /\ pc = "opened" =>
               bitmap = 70 + 4264 * Selected(idx)

\* The directory [(16,16),(32,32),(48,32)] was scanned and the bitmap decoder
\* was given the offset of its second entry.
DirectoryWitness ==
    /\ pc = "opened"
    /\ idx = 3
    /\ DirDims = << <<16, 16>>, <<32, 32>>, <<48, 32>> >>
    /\ <<m[1], m[2]>> = <<32, 32>>
    /\ bitmap = 70 + 4264 * 2

====
